---- MODULE Spec2Model ----
(***************************************************************************)
(* A model of src/ak.py: the statistics of a code submission               *)
(* (get_code_stats), the decoding of an uploaded file                      *)
(* (get_code_from_upload), the review call (review_code) and the page      *)
(* script that ties them together (main).                                  *)
(*                                                                         *)
(* Text is a sequence of chunks; a chunk stands for a fixed piece of       *)
(* Python text, and a text for the concatenation of its chunks:            *)
(*     "def"   for  def f():          "sp"    for one space (U+0020)       *)
(*     "async" for  async def f():    "nl"    for \n                       *)
(*     "class" for  class C:          "cr"    for \r                       *)
(*     "pass"  for  pass;             "nbsp"  for U+00A0 (no-break space)  *)
(* so <<"def","nl","sp","pass">> is the text "def f():\n pass;".           *)
(***************************************************************************)
EXTENDS Integers, Sequences, FiniteSets

\* ------------------------------------------------------------ exceptions

\* cls.__base__ for the exception classes of the model: Python's builtin
\* exception classes (3.11) and the standard library's CancelledError,
\* InvalidStateError, IncompleteReadError, LimitOverrunError (asyncio),
\* JSONDecodeError (json), SubprocessError, CalledProcessError,
\* TimeoutExpired (subprocess) and URLError (urllib.error). The base of
\* object is None. No other class has a value here.
ExcBase(cls) ==
    CASE cls = "BaseException" -> "object"
      [] cls = "BaseExceptionGroup" -> "BaseException"
      [] cls = "Exception" -> "BaseException"
      [] cls = "GeneratorExit" -> "BaseException"
      [] cls = "KeyboardInterrupt" -> "BaseException"
      [] cls = "SystemExit" -> "BaseException"
      [] cls = "ArithmeticError" -> "Exception"
      [] cls = "AssertionError" -> "Exception"
      [] cls = "AttributeError" -> "Exception"
      [] cls = "BufferError" -> "Exception"
      [] cls = "EOFError" -> "Exception"
      [] cls = "ImportError" -> "Exception"
      [] cls = "LookupError" -> "Exception"
      [] cls = "MemoryError" -> "Exception"
      [] cls = "NameError" -> "Exception"
      [] cls = "OSError" -> "Exception"
      [] cls = "ReferenceError" -> "Exception"
      [] cls = "RuntimeError" -> "Exception"
      [] cls = "StopAsyncIteration" -> "Exception"
      [] cls = "StopIteration" -> "Exception"
      [] cls = "SyntaxError" -> "Exception"
      [] cls = "SystemError" -> "Exception"
      [] cls = "TypeError" -> "Exception"
      [] cls = "ValueError" -> "Exception"
      [] cls = "Warning" -> "Exception"
      [] cls = "BlockingIOError" -> "OSError"
      [] cls = "BytesWarning" -> "Warning"
      [] cls = "ChildProcessError" -> "OSError"
      [] cls = "ConnectionError" -> "OSError"
      [] cls = "DeprecationWarning" -> "Warning"
      [] cls = "EncodingWarning" -> "Warning"
      [] cls = "ExceptionGroup" -> "BaseExceptionGroup"
      [] cls = "FileExistsError" -> "OSError"
      [] cls = "FileNotFoundError" -> "OSError"
      [] cls = "FloatingPointError" -> "ArithmeticError"
      [] cls = "FutureWarning" -> "Warning"
      [] cls = "ImportWarning" -> "Warning"
      [] cls = "IndentationError" -> "SyntaxError"
      [] cls = "IndexError" -> "LookupError"
      [] cls = "InterruptedError" -> "OSError"
      [] cls = "IsADirectoryError" -> "OSError"
      [] cls = "KeyError" -> "LookupError"
      [] cls = "ModuleNotFoundError" -> "ImportError"
      [] cls = "NotADirectoryError" -> "OSError"
      [] cls = "NotImplementedError" -> "RuntimeError"
      [] cls = "OverflowError" -> "ArithmeticError"
      [] cls = "PendingDeprecationWarning" -> "Warning"
      [] cls = "PermissionError" -> "OSError"
      [] cls = "ProcessLookupError" -> "OSError"
      [] cls = "RecursionError" -> "RuntimeError"
      [] cls = "ResourceWarning" -> "Warning"
      [] cls = "RuntimeWarning" -> "Warning"
      [] cls = "SyntaxWarning" -> "Warning"
      [] cls = "TimeoutError" -> "OSError"
      [] cls = "UnboundLocalError" -> "NameError"
      [] cls = "UnicodeError" -> "ValueError"
      [] cls = "UnicodeWarning" -> "Warning"
      [] cls = "UserWarning" -> "Warning"
      [] cls = "ZeroDivisionError" -> "ArithmeticError"
      [] cls = "BrokenPipeError" -> "ConnectionError"
      [] cls = "ConnectionAbortedError" -> "ConnectionError"
      [] cls = "ConnectionRefusedError" -> "ConnectionError"
      [] cls = "ConnectionResetError" -> "ConnectionError"
      [] cls = "TabError" -> "IndentationError"
      [] cls = "UnicodeDecodeError" -> "UnicodeError"
      [] cls = "UnicodeEncodeError" -> "UnicodeError"
      [] cls = "UnicodeTranslateError" -> "UnicodeError"
      [] cls = "CancelledError" -> "BaseException"
      [] cls = "InvalidStateError" -> "Exception"
      [] cls = "IncompleteReadError" -> "EOFError"
      [] cls = "LimitOverrunError" -> "Exception"
      [] cls = "JSONDecodeError" -> "ValueError"
      [] cls = "SubprocessError" -> "Exception"
      [] cls = "CalledProcessError" -> "SubprocessError"
      [] cls = "TimeoutExpired" -> "SubprocessError"
      [] cls = "URLError" -> "OSError"
      [] cls = "object" -> "None"

\* cls.__bases__: ExceptionGroup alone has two bases.
ExcBases(cls) ==
    IF cls = "object" THEN {}
    ELSE IF cls = "ExceptionGroup" THEN {ExcBase(cls), "Exception"}
    ELSE {ExcBase(cls)}

\* issubclass(cls, base): what an "except base" clause catches.
RECURSIVE IsSubclass(_, _)
IsSubclass(cls, base) ==
    IF cls = base THEN TRUE
    ELSE \E b \in ExcBases(cls) : IsSubclass(b, base)

\* ------------------------------------------------------------------ text

Header == {"def", "async", "class"}
Simple == {"pass"}
LineBreak == {"nl", "cr"}
\* str.isspace(): the chunks str.strip() removes.
Whitespace == {"sp", "nl", "cr", "nbsp"}
Chunk == Header \cup Simple \cup Whitespace

RECURSIVE SeqsUpTo(_, _)
SeqsUpTo(S, n) ==
    IF n = 0 THEN {<<>>}
    ELSE LET shorter == SeqsUpTo(S, n - 1)
         IN shorter \cup {Append(s, c) : s \in {t \in shorter : Len(t) = n - 1}, c \in S}

\* ------------------------------------------------------- str.splitlines

\* The first index >= i of code that holds a line break, or Len(code) + 1.
RECURSIVE NextBreak(_, _)
NextBreak(code, i) ==
    IF i > Len(code) THEN i
    ELSE IF code[i] \in LineBreak THEN i
    ELSE NextBreak(code, i + 1)

\* The lines of code[i..], line ends dropped; \r\n is one line end.
RECURSIVE SplitFrom(_, _)
SplitFrom(code, i) ==
    IF i > Len(code) THEN <<>>
    ELSE LET eol == NextBreak(code, i)
             next == IF eol > Len(code) THEN eol
                     ELSE IF code[eol] = "cr" /\ eol + 1 <= Len(code) /\ code[eol + 1] = "nl"
                          THEN eol + 2
                          ELSE eol + 1
         IN <<SubSeq(code, i, eol - 1)>> \o SplitFrom(code, next)

\* A plausible slip: split("\n"), which yields one more (empty) line after a
\* trailing \n, one line for the empty text, and does not split at \r.
RECURSIVE SplitOnNl(_, _)
SplitOnNl(code, i) ==
    IF i > Len(code) THEN <<SubSeq(code, i, Len(code))>>
    ELSE IF code[i] = "nl" THEN <<<<>>>> \o SplitOnNl(code, i + 1)
    ELSE LET rest == SplitOnNl(code, i + 1)
         IN <<<<code[i]>> \o Head(rest)>> \o Tail(rest)

splitlines_split(code) == SplitOnNl(code, 1)

splitlines(code) == SplitFrom(code, 1)

\* ------------------------------------------------------------ ast.parse

\* The tokenizer's universal newlines: \r\n and \r read as \n.
RECURSIVE TranslateNewlines(_)
TranslateNewlines(code) ==
    IF code = <<>> THEN <<>>
    ELSE IF Head(code) = "cr"
         THEN IF Len(code) >= 2 /\ code[2] = "nl"
              THEN <<"nl">> \o TranslateNewlines(SubSeq(code, 3, Len(code)))
              ELSE <<"nl">> \o TranslateNewlines(Tail(code))
         ELSE <<Head(code)>> \o TranslateNewlines(Tail(code))

\* The physical lines of the source: cut at every \n.
RECURSIVE CutAtNl(_)
CutAtNl(src) ==
    IF src = <<>> THEN <<>>
    ELSE LET eol == CHOOSE k \in 1..(Len(src) + 1) :
                        /\ k = Len(src) + 1 \/ src[k] = "nl"
                        /\ \A j \in 1..(k - 1) : src[j] # "nl"
         IN <<SubSeq(src, 1, eol - 1)>> \o CutAtNl(SubSeq(src, eol + 1, Len(src)))

SourceLines(code) == CutAtNl(TranslateNewlines(code))

\* The column of a line's first chunk that is not a space.
RECURSIVE Indent(_)
Indent(line) ==
    IF line # <<>> /\ Head(line) = "sp" THEN 1 + Indent(Tail(line)) ELSE 0

NotSp(c) == c # "sp"

\* The tokens of a line: its chunks without the spaces between them.
Tokens(line) == SelectSeq(line, NotSp)

\* What one logical line is: blank, a run of simple statements, a compound
\* statement with its body on the same line, the header of a block, or not
\* a statement at all.
LineForm(line) ==
    LET toks == Tokens(line) IN
    IF toks = <<>> THEN "blank"
    ELSE IF \A k \in 1..Len(toks) : toks[k] \in Simple THEN "simple"
    ELSE IF toks[1] \in Header /\ Len(toks) = 1 THEN "block"
    ELSE IF toks[1] \in Header /\ \A k \in 2..Len(toks) : toks[k] \in Simple THEN "inline"
    ELSE "error"

NodeType(tok) ==
    CASE tok = "def" -> "FunctionDef"
      [] tok = "async" -> "AsyncFunctionDef"
      [] tok = "class" -> "ClassDef"
      [] OTHER -> "Pass"

Node(type, parent) == [type |-> type, parent |-> parent]

\* n statement nodes of simple statements under one parent.
RECURSIVE PassNodes(_, _)
PassNodes(n, parent) ==
    IF n = 0 THEN <<>> ELSE <<Node("Pass", parent)>> \o PassNodes(n - 1, parent)

\* The indentation stack with every level deeper than col popped.
RECURSIVE Dedent(_, _)
Dedent(stack, col) ==
    IF Len(stack) > 1 /\ stack[Len(stack)].indent > col
    THEN Dedent(SubSeq(stack, 1, Len(stack) - 1), col)
    ELSE stack

\* The tokenizer's MAXINDENT: it keeps fewer than this many indentation
\* levels, the unindented one included, and fails on the next.
MAXINDENT == 100

\* The parser's state: the nodes built so far (node 1 is the Module), the
\* stack of open blocks (indentation, the block's node), whether a header
\* waits for its indented block, and whether a syntax error was met.
ParseStart ==
    [nodes |-> <<Node("Module", 0)>>,
     stack |-> <<[indent |-> 0, node |-> 1]>>,
     pending |-> 0,
     ok |-> TRUE]

ParseLine(st, line) ==
    LET form == LineForm(line)
        col == Indent(line)
        toks == Tokens(line)
        top == st.stack[Len(st.stack)]
        stack == IF st.pending # 0
                 THEN Append(st.stack, [indent |-> col, node |-> st.pending])
                 ELSE Dedent(st.stack, col)
        levelOk == IF st.pending # 0
                   THEN col > top.indent /\ Len(st.stack) < MAXINDENT
                   ELSE stack[Len(stack)].indent = col
        parent == stack[Len(stack)].node
        me == Len(st.nodes) + 1
    IN IF ~st.ok \/ form = "blank" THEN st
       ELSE IF form = "error" \/ ~levelOk THEN [st EXCEPT !.ok = FALSE]
       ELSE IF form = "simple"
            THEN [st EXCEPT !.nodes = @ \o PassNodes(Len(toks), parent),
                            !.stack = stack, !.pending = 0]
       ELSE IF form = "inline"
            THEN [st EXCEPT !.nodes = @ \o <<Node(NodeType(toks[1]), parent)>>
                                        \o PassNodes(Len(toks) - 1, me),
                            !.stack = stack, !.pending = 0]
       ELSE [st EXCEPT !.nodes = Append(@, Node(NodeType(toks[1]), parent)),
                       !.stack = stack, !.pending = me]

RECURSIVE ParseLines(_, _)
ParseLines(st, lines) ==
    IF lines = <<>> THEN st ELSE ParseLines(ParseLine(st, Head(lines)), Tail(lines))

\* ast.parse(code): the tree, or the exception it raises: a SyntaxError (an
\* IndentationError is one) for a line that is no statement, a wrong
\* indentation, too many levels of indentation, a header without its block,
\* or a character that is not Python's (U+00A0).
ast_parse(code) ==
    LET st == ParseLines(ParseStart, SourceLines(code))
    IN IF \E k \in 1..Len(code) : code[k] = "nbsp"
       THEN [ok |-> FALSE, exc |-> "SyntaxError", nodes |-> <<>>]
       ELSE IF ~st.ok \/ st.pending # 0
            THEN [ok |-> FALSE, exc |-> "SyntaxError", nodes |-> <<>>]
            ELSE [ok |-> TRUE, exc |-> "none", nodes |-> st.nodes]

\* ------------------------------------------------------------- ast.walk

\* iter_child_nodes: the nodes whose parent is node i, in source order.
RECURSIVE ChildrenFrom(_, _, _)
ChildrenFrom(nodes, i, j) ==
    IF j > Len(nodes) THEN <<>>
    ELSE (IF nodes[j].parent = i THEN <<j>> ELSE <<>>) \o ChildrenFrom(nodes, i, j + 1)

iter_child_nodes(nodes, i) == ChildrenFrom(nodes, i, 1)

\* ast.walk: breadth first from the queue todo.
RECURSIVE WalkFrom(_, _)
WalkFrom(nodes, todo) ==
    IF todo = <<>> THEN <<>>
    ELSE <<Head(todo)>> \o WalkFrom(nodes, Tail(todo) \o iter_child_nodes(nodes, Head(todo)))

ast_walk(nodes) == WalkFrom(nodes, <<1>>)

\* len([n for n in ast.walk(tree) if isinstance(n, cls)])
RECURSIVE CountType(_, _, _)
CountType(nodes, walk, type) ==
    IF walk = <<>> THEN 0
    ELSE (IF nodes[Head(walk)].type = type THEN 1 ELSE 0) + CountType(nodes, Tail(walk), type)

\* ------------------------------------------------------- get_code_stats

NoStats == [lines |-> 0, functions |-> 0, classes |-> 0]

\* A plausible slip: the line count taken inside the try block, so that a
\* parse failure leaves it 0 as well.
get_code_stats_lines_in_try(code) ==
    LET tree == ast_parse(code)
    IN IF tree.ok
       THEN [raised |-> "none",
             value |-> [lines |-> Len(splitlines(code)),
                        functions |-> CountType(tree.nodes, ast_walk(tree.nodes), "FunctionDef"),
                        classes |-> CountType(tree.nodes, ast_walk(tree.nodes), "ClassDef")]]
       ELSE [raised |-> "none", value |-> NoStats]

\* get_code_stats(code): the triple it returns, or the exception that
\* leaves it (raised # "none") when the except clause does not catch what
\* ast.parse raised.
get_code_stats(code) ==
    LET tree == ast_parse(code)
        caught == ~tree.ok /\ IsSubclass(tree.exc, "Exception")
        num_functions == IF caught THEN 0
                         ELSE CountType(tree.nodes, ast_walk(tree.nodes), "FunctionDef")
        num_classes == IF caught THEN 0
                       ELSE CountType(tree.nodes, ast_walk(tree.nodes), "ClassDef")
        num_lines == Len(splitlines(code))
    IN IF ~tree.ok /\ ~caught
       THEN [raised |-> tree.exc, value |-> NoStats]
       ELSE [raised |-> "none",
             value |-> [lines |-> num_lines, functions |-> num_functions,
                        classes |-> num_classes]]


\* The decimal digits of a natural number, as str() formats it.
Digit(d) ==
    CASE d = 0 -> "0" [] d = 1 -> "1" [] d = 2 -> "2" [] d = 3 -> "3" [] d = 4 -> "4"
      [] d = 5 -> "5" [] d = 6 -> "6" [] d = 7 -> "7" [] d = 8 -> "8" [] OTHER -> "9"

RECURSIVE Str(_)
Str(n) == IF n < 10 THEN <<Digit(n)>> ELSE Str(n \div 10) \o <<Digit(n % 10)>>

\* The f-string display_code_stats hands to st.markdown.
StatsLine(s) ==
    <<"**Lines:** ">> \o Str(s.lines) \o <<"  |  **Functions:** ">> \o Str(s.functions)
        \o <<"  |  **Classes:** ">> \o Str(s.classes)

\* ------------------------------------------------- get_code_from_upload

\* What st.file_uploader returns: None, or a file of bytes. A byte chunk
\* is the UTF-8 encoding of an ASCII text chunk, named as that chunk, or
\* one of the bytes 0xC2 (the lead byte of a two-byte character), 0xA0 (a
\* continuation byte; 0xC2 0xA0 encodes U+00A0) and 0xFF (never valid).
None == [kind |-> "none", readable |-> FALSE, bytes |-> <<>>]
File(readable, bytes) == [kind |-> "file", readable |-> readable, bytes |-> bytes]

Ascii == {"def", "async", "class", "pass", "sp", "nl", "cr"}

Decoded(text) == [ok |-> TRUE, text |-> text, exc |-> "none", detail |-> <<>>]
Failed(exc, detail) == [ok |-> FALSE, text |-> <<>>, exc |-> exc, detail |-> detail]

\* The length in bytes of a byte chunk.
ByteLen(b) ==
    CASE b = "def" -> 8 [] b = "async" -> 14 [] b = "class" -> 8 [] b = "pass" -> 5
      [] OTHER -> 1

\* bytes.decode('utf-8') from chunk i (at byte offset pos) on, text being
\* what is decoded so far. The detail of a failure is the byte, its offset
\* and the reason.
RECURSIVE DecodeFrom(_, _, _, _)
DecodeFrom(bytes, i, pos, text) ==
    IF i > Len(bytes) THEN Decoded(text)
    ELSE IF bytes[i] \in Ascii
         THEN DecodeFrom(bytes, i + 1, pos + ByteLen(bytes[i]), Append(text, bytes[i]))
    ELSE IF bytes[i] = "xC2"
         THEN IF i = Len(bytes)
              THEN Failed("UnicodeDecodeError",
                          <<"xC2">> \o Str(pos) \o <<"unexpected end of data">>)
              ELSE IF bytes[i + 1] = "xA0"
                   THEN DecodeFrom(bytes, i + 2, pos + 2, Append(text, "nbsp"))
                   ELSE Failed("UnicodeDecodeError",
                               <<"xC2">> \o Str(pos) \o <<"invalid continuation byte">>)
         ELSE Failed("UnicodeDecodeError",
                     <<bytes[i]>> \o Str(pos) \o <<"invalid start byte">>)

\* A plausible slip: decode(errors='ignore'), which drops what does not
\* decode rather than failing.
RECURSIVE DecodeIgnoring(_, _, _)
DecodeIgnoring(bytes, i, text) ==
    IF i > Len(bytes) THEN Decoded(text)
    ELSE IF bytes[i] \in Ascii THEN DecodeIgnoring(bytes, i + 1, Append(text, bytes[i]))
    ELSE IF bytes[i] = "xC2" /\ i < Len(bytes) /\ bytes[i + 1] = "xA0"
         THEN DecodeIgnoring(bytes, i + 2, Append(text, "nbsp"))
         ELSE DecodeIgnoring(bytes, i + 1, text)

read_decode_ignore(file) ==
    IF ~file.readable THEN Failed("ValueError", <<"I/O operation on closed file.">>)
    ELSE DecodeIgnoring(file.bytes, 1, <<>>)

\* uploaded_file.read().decode('utf-8')
read_decode(file) ==
    IF ~file.readable THEN Failed("ValueError", <<"I/O operation on closed file.">>)
    ELSE DecodeFrom(file.bytes, 1, 0, <<>>)

\* One element of the page: the streamlit call that drew it and its text.
El(kind, text) == [kind |-> kind, text |-> text]

\* get_code_from_upload(uploaded_file): the string it returns, what it
\* draws, and the exception that leaves it, if any.
get_code_from_upload(file) ==
    IF file.kind = "none" THEN [value |-> <<>>, shown |-> <<>>, raised |-> "none"]
    ELSE LET r == read_decode(file)
         IN IF r.ok THEN [value |-> r.text, shown |-> <<>>, raised |-> "none"]
            ELSE IF IsSubclass(r.exc, "Exception")
                 THEN [value |-> <<>>,
                       shown |-> <<El("error", <<"Error reading file: ">> \o r.detail)>>,
                       raised |-> "none"]
                 ELSE [value |-> <<>>, shown |-> <<>>, raised |-> r.exc]

\* ---------------------------------------------------------- review_code

\* prompt.format(code=code): the fixed template around the code.
prompt_format(code) == <<"You are an advanced software engineer ... Code:">> \o code \o <<"Response:">>

\* What chain.invoke comes back with: the model's text, or an exception.
Reply(text) == [ok |-> TRUE, text |-> text, exc |-> "none", detail |-> <<>>]
Failure(exc, detail) == [ok |-> FALSE, text |-> <<>>, exc |-> exc, detail |-> detail]

\* A plausible slip: an except clause that names one kind of failure only.
review_code_narrow(response) ==
    IF response.ok THEN [value |-> response.text, logged |-> <<>>, raised |-> "none"]
    ELSE IF IsSubclass(response.exc, "ValueError")
         THEN [value |-> <<"Error during review: ">> \o response.detail,
               logged |-> <<<<"Error during LLM review: ">> \o response.detail>>,
               raised |-> "none"]
         ELSE [value |-> <<>>, logged |-> <<>>, raised |-> response.exc]

\* A plausible slip: the model's text trimmed before it is returned.
review_code_trimmed(response) ==
    IF response.ok
    THEN [value |-> SelectSeq(response.text, LAMBDA c : c \notin Whitespace),
          logged |-> <<>>, raised |-> "none"]
    ELSE [value |-> <<"Error during review: ">> \o response.detail,
          logged |-> <<<<"Error during LLM review: ">> \o response.detail>>,
          raised |-> "none"]

\* review_code, from the answer of chain.invoke on: the string it returns,
\* what it logs, and the exception that leaves it, if any.
review_code(response) ==
    IF response.ok THEN [value |-> response.text, logged |-> <<>>, raised |-> "none"]
    ELSE IF IsSubclass(response.exc, "Exception")
         THEN [value |-> <<"Error during review: ">> \o response.detail,
               logged |-> <<<<"Error during LLM review: ">> \o response.detail>>,
               raised |-> "none"]
         ELSE [value |-> <<>>, logged |-> <<>>, raised |-> response.exc]

\* ------------------------------------------------------------ str.strip

RECURSIVE LStrip(_)
LStrip(s) == IF s # <<>> /\ Head(s) \in Whitespace THEN LStrip(Tail(s)) ELSE s

RECURSIVE RStrip(_)
RStrip(s) ==
    IF s # <<>> /\ s[Len(s)] \in Whitespace THEN RStrip(SubSeq(s, 1, Len(s) - 1)) ELSE s

strip(s) == RStrip(LStrip(s))

\* A plausible slip: "if not usercode", without the strip.
IsBlankNoStrip(s) == s = <<>>

\* not usercode.strip()
IsBlank(s) == strip(s) = <<>>

\* A plausible slip: the preview shown only for text that is not blank.
TruthyStripped(s) == strip(s) # <<>>

\* if usercode: a string is true when it is not empty.
Truthy(s) == s # <<>>

\* ----------------------------------------------------------------- state

\* Bounds of the model.
MaxLen == 5
MaxFileLen == 2
MaxTyped == 2
MaxRuns == 2

\* The inputs of one execution of the page script.
FileByte == {"pass", "xC2", "xA0", "xFF"}
Uploads == {None} \cup {File(FALSE, <<>>)}
               \cup {File(TRUE, b) : b \in SeqsUpTo(FileByte, MaxFileLen)}
Typed == SeqsUpTo({"def", "pass", "sp", "nl"}, MaxTyped)
Replies == {<<>>, <<"Looks good.">>, <<"sp", "Rename f.", "nl">>}
Failures == {Failure("ConnectionError", <<"timed out">>),
             Failure("ValueError", <<"bad response">>)}

NoResponse == [ok |-> FALSE, text |-> <<>>, exc |-> "pending", detail |-> <<>>]

VARIABLES
    pc,             \* where the execution of main (or the statistics run) stands
    runs,           \* the executions of main so far, this one included
    uploaded_file,  \* main's uploaded_file
    code_from_file, \* main's code_from_file
    usercode,       \* main's usercode
    clicked,        \* what st.button returned in this execution
    page,           \* the elements drawn in this execution, in order
    log,            \* the records logging.error wrote, each with its execution
    calls,          \* the chain.invoke calls issued in this execution
    request,        \* the prompt of the call issued in this execution
    response,       \* what that call came back with
    review,         \* main's review
    code,           \* the argument of a statistics run
    stats           \* what get_code_stats returned in a statistics run

vars == <<pc, runs, uploaded_file, code_from_file, usercode, clicked, page, log,
          calls, request, response, review, code, stats>>

mainvars == <<runs, uploaded_file, code_from_file, usercode, clicked, page, log,
              calls, request, response, review>>

\* The locals of main before it runs.
Fresh ==
    /\ uploaded_file = None
    /\ code_from_file = <<>>
    /\ usercode = <<>>
    /\ clicked = FALSE
    /\ page = <<>>
    /\ calls = 0
    /\ request = <<>>
    /\ response = NoResponse
    /\ review = <<>>

Init ==
    /\ pc = "start"
    /\ runs = 1
    /\ Fresh
    /\ log = <<>>
    /\ code = <<>>
    /\ stats = NoStats

\* --------------------------------------------------------------- main

\* What main draws before it reads any input.
PageHead ==
    <<El("sidebar.title", <<"Instructions">>),
      El("sidebar.info", <<"- Paste your code or upload a file. ...">>),
      El("sidebar.markdown", <<"---">>),
      El("sidebar.write", <<"Built with :blue[Streamlit] and :orange[Gemini]">>),
      El("title", <<" Advanced AI Code Reviewer">>),
      El("write", <<"Paste your code below or upload a file for review.">>)>>

PleaseProvide == El("warning", <<"Please paste your code or upload a file before submitting.">>)

\* The head of main and st.file_uploader: the user's file, or None.
FileUploader ==
    /\ pc = "start"
    /\ page' = PageHead
    /\ \E f \in Uploads : uploaded_file' = f
    /\ pc' = "upload"
    /\ UNCHANGED <<runs, code_from_file, usercode, clicked, log, calls, request,
                   response, review, code, stats>>

\* code_from_file = get_code_from_upload(uploaded_file)
GetCodeFromUpload ==
    /\ pc = "upload"
    /\ LET r == get_code_from_upload(uploaded_file)
       IN /\ code_from_file' = r.value
          /\ page' = page \o r.shown
          /\ pc' = IF r.raised = "none" THEN "textarea" ELSE "raised"
    /\ UNCHANGED <<runs, uploaded_file, usercode, clicked, log, calls, request,
                   response, review, code, stats>>

\* usercode = st.text_area(..., value=code_from_file): the default, or what
\* the user typed over it.
TextArea ==
    /\ pc = "textarea"
    /\ \E typed \in {code_from_file} \cup Typed : usercode' = typed
    /\ pc' = "preview"
    /\ UNCHANGED <<runs, uploaded_file, code_from_file, clicked, page, log, calls,
                   request, response, review, code, stats>>

\* What "if usercode:" draws: the preview and the statistics line.
PreviewOf(text) ==
    IF Truthy(text)
    THEN LET s == get_code_stats(text)
         IN [shown |-> <<El("markdown", <<"### Code Preview">>), El("code", text)>>
                         \o (IF s.raised = "none"
                             THEN <<El("markdown", StatsLine(s.value))>> ELSE <<>>),
             raised |-> s.raised]
    ELSE [shown |-> <<>>, raised |-> "none"]

Preview ==
    /\ pc = "preview"
    /\ LET r == PreviewOf(usercode)
       IN /\ page' = page \o r.shown
          /\ pc' = IF r.raised = "none" THEN "button" ELSE "raised"
    /\ UNCHANGED <<runs, uploaded_file, code_from_file, usercode, clicked, log, calls,
                   request, response, review, code, stats>>

\* st.button returns False: nothing more is drawn.
ButtonNotClicked ==
    /\ pc = "button"
    /\ clicked' = FALSE
    /\ pc' = "done"
    /\ UNCHANGED <<runs, uploaded_file, code_from_file, usercode, page, log, calls,
                   request, response, review, code, stats>>

\* The button was clicked on a blank submission: the warning.
ButtonBlank ==
    /\ pc = "button"
    /\ IsBlank(usercode)
    /\ clicked' = TRUE
    /\ page' = Append(page, PleaseProvide)
    /\ pc' = "done"
    /\ UNCHANGED <<runs, uploaded_file, code_from_file, usercode, log, calls,
                   request, response, review, code, stats>>

\* The button was clicked on a submission: review_code issues chain.invoke.
ButtonReview ==
    /\ pc = "button"
    /\ ~IsBlank(usercode)
    /\ clicked' = TRUE
    /\ request' = prompt_format(usercode)
    /\ calls' = calls + 1
    /\ pc' = "invoke"
    /\ UNCHANGED <<runs, uploaded_file, code_from_file, usercode, page, log,
                   response, review, code, stats>>

\* review_code's return to main, and what main draws with it.
Returned(r) ==
    /\ log' = log \o [k \in 1..Len(r.logged) |-> [run |-> runs, msg |-> r.logged[k]]]
    /\ IF r.raised = "none"
       THEN /\ review' = r.value
            /\ page' = page \o <<El("markdown", <<"---">>),
                                 El("subheader", <<":mag: Review Result">>),
                                 El("write", r.value),
                                 El("markdown", <<"---">>),
                                 El("info", <<"If you found this helpful, consider giving feedback!">>)>>
            /\ pc' = "done"
       ELSE /\ pc' = "raised"
            /\ UNCHANGED <<review, page>>

\* A plausible slip: a failed call issued again.
InvokeRaisesRetry ==
    /\ pc = "invoke"
    /\ calls < 3
    /\ \E f \in Failures : response' = f
    /\ calls' = calls + 1
    /\ UNCHANGED <<pc, runs, uploaded_file, code_from_file, usercode, clicked, page, log,
                   request, review, code, stats>>

\* chain.invoke returns the model's text.
InvokeReturns ==
    /\ pc = "invoke"
    /\ \E text \in Replies :
          /\ response' = Reply(text)
          /\ Returned(review_code(Reply(text)))
    /\ UNCHANGED <<runs, uploaded_file, code_from_file, usercode, clicked, calls,
                   request, code, stats>>

\* chain.invoke raises.
InvokeRaises ==
    /\ pc = "invoke"
    /\ \E f \in Failures :
          /\ response' = f
          /\ Returned(review_code(f))
    /\ UNCHANGED <<runs, uploaded_file, code_from_file, usercode, clicked, calls,
                   request, code, stats>>

\* The next user action: streamlit runs main again, from the top; only the
\* process's log outlives the execution.
Rerun ==
    /\ pc \in {"done", "raised"}
    /\ runs < MaxRuns
    /\ runs' = runs + 1
    /\ uploaded_file' = None
    /\ code_from_file' = <<>>
    /\ usercode' = <<>>
    /\ clicked' = FALSE
    /\ page' = <<>>
    /\ calls' = 0
    /\ request' = <<>>
    /\ response' = NoResponse
    /\ review' = <<>>
    /\ pc' = "start"
    /\ UNCHANGED <<log, code, stats>>

Next ==
    \/ FileUploader
    \/ GetCodeFromUpload
    \/ TextArea
    \/ Preview
    \/ ButtonNotClicked
    \/ ButtonBlank
    \/ ButtonReview
    \/ InvokeReturns
    \/ InvokeRaises
    \/ Rerun

Spec == Init /\ [][Next]_vars

\* ------------------------------------------------------ statistics runs

\* A run of get_code_stats alone, on any text of at most MaxLen chunks.
StatsInit ==
    /\ pc = "input"
    /\ code \in SeqsUpTo(Chunk, MaxLen)
    /\ stats = NoStats
    /\ runs = 0
    /\ Fresh
    /\ log = <<>>

ComputeStats ==
    /\ pc = "input"
    /\ LET r == get_code_stats(code)
       IN /\ stats' = r.value
          /\ pc' = IF r.raised = "none" THEN "computed" ELSE "raised"
    /\ UNCHANGED <<code, mainvars>>

StatsNext == ComputeStats

SpecStats == StatsInit /\ [][StatsNext]_vars

\* --------------------------------------------------------- properties

\* A text that is empty or holds only whitespace.
AllWhitespace(s) == \A k \in 1..Len(s) : s[k] \in Whitespace

\* Whether sequence part occurs in sequence whole.
Contains(whole, part) ==
    \E i \in 1..(Len(whole) - Len(part) + 1) : SubSeq(whole, i, i + Len(part) - 1) = part

\* The records logging.error wrote in the current execution.
LoggedNow == {k \in 1..Len(log) : log[k].run = runs}

Shown(el) == \E k \in 1..Len(page) : page[k] = el

\* The preview of the submitted text, followed by its statistics line.
PreviewShown ==
    \E k \in 1..(Len(page) - 1) :
        /\ page[k] = El("code", usercode)
        /\ page[k + 1] = El("markdown", StatsLine(get_code_stats(usercode).value))

\* The line ends of a text: every \n and \r, a \r\n counting once.
LineEnds(s) ==
    {k \in 1..Len(s) : s[k] \in LineBreak /\ ~(s[k] = "nl" /\ k > 1 /\ s[k - 1] = "cr")}

\* The lines of a text: one for each line end, and one for what follows the
\* last line end, if anything does.
LineCount(s) ==
    Cardinality(LineEnds(s)) + (IF s # <<>> /\ s[Len(s)] \notin LineBreak THEN 1 ELSE 0)

\* The nodes of a tree of one of the given types, at any depth.
NodesOfType(nodes, types) == {k \in 1..Len(nodes) : nodes[k].type \in types}

\* C1: when the button is clicked on a text that is empty or only
\* whitespace, no remote call is made in that execution (none issued, none
\* in flight, none answered), the "please provide code" warning is the last
\* thing drawn, and logging.error wrote nothing in that execution.
C1_BlankSubmissionRejectedLocally ==
    (clicked /\ AllWhitespace(usercode)) =>
        /\ calls = 0
        /\ request = <<>>
        /\ response = NoResponse
        /\ pc = "done"
        /\ page # <<>> /\ page[Len(page)] = PleaseProvide
        /\ LoggedNow = {}

\* A whitespace-only (not empty) submission was clicked and warned about.
C1_Witness ==
    /\ clicked
    /\ usercode # <<>> /\ AllWhitespace(usercode)
    /\ Shown(PleaseProvide)
    /\ pc = "done"

\* C2: whatever chain.invoke comes back with, review_code returns to main
\* (the execution never ends in an exception); when the call failed, the
\* returned string contains the failure's detail and logging.error wrote a
\* record with that detail in this execution.
C2_ReviewCodeNeverRaises ==
    /\ pc # "raised"
    /\ response # NoResponse =>
          /\ pc = "done"
          /\ Shown(El("write", review))
          /\ ~response.ok =>
                /\ Contains(review, response.detail)
                /\ \E k \in LoggedNow : Contains(log[k].msg, response.detail)

\* A connection failure came back as a string that holds its detail.
C2_Witness ==
    /\ pc = "done"
    /\ ~response.ok /\ response.exc = "ConnectionError"
    /\ Contains(review, <<"timed out">>)

\* C3 (as claimed): for a text that parses, the function count is the
\* number of function-definition nodes (def and async def) at all depths of
\* the tree, and the class count the number of class-definition nodes.
C3_CountsAllDefinitionNodes ==
    (pc = "computed" /\ ast_parse(code).ok) =>
        /\ stats.functions =
              Cardinality(NodesOfType(ast_parse(code).nodes, {"FunctionDef", "AsyncFunctionDef"}))
        /\ stats.classes = Cardinality(NodesOfType(ast_parse(code).nodes, {"ClassDef"}))

\* C4: get_code_stats never raises; for a text that fails to parse the
\* function and class counts are 0; and the line count is the number of
\* lines of the raw text whether or not the text parses.
C4_ParseFailureZeroCounts ==
    /\ pc # "raised"
    /\ pc = "computed" =>
          /\ stats.lines = LineCount(code)
          /\ ~ast_parse(code).ok => stats.functions = 0 /\ stats.classes = 0

\* A text of two lines with a def in it that does not parse.
C4_Witness ==
    /\ pc = "computed"
    /\ ~ast_parse(code).ok
    /\ \E k \in 1..Len(code) : code[k] = "def"
    /\ stats = [lines |-> 2, functions |-> 0, classes |-> 0]

\* C5: the line count of the empty text is 0; a text that does not end in a
\* line end has one line more than it has line ends (its last line counts);
\* and appending one \n to such a text does not change its line count: two
\* lines for "a\nb" and for "a\nb\n".
C5_LineCount ==
    pc = "computed" =>
        /\ code = <<>> => stats.lines = 0
        /\ (code # <<>> /\ code[Len(code)] \notin LineBreak) =>
              /\ stats.lines = Cardinality(LineEnds(code)) + 1
              /\ get_code_stats(Append(code, "nl")).value.lines = stats.lines
        /\ code = <<"pass", "nl", "pass">> => stats.lines = 2
        /\ code = <<"pass", "nl", "pass", "nl">> => stats.lines = 2

\* The statistics of "a\nb\n" were computed: two lines.
C5_Witness ==
    /\ pc = "computed"
    /\ code = <<"pass", "nl", "pass", "nl">>
    /\ stats.lines = 2

\* The bytes that are well-formed UTF-8: no 0xFF, every 0xC2 followed by
\* 0xA0 and every 0xA0 preceded by 0xC2.
ValidUtf8(bytes) ==
    \A k \in 1..Len(bytes) :
        /\ bytes[k] # "xFF"
        /\ bytes[k] = "xC2" => (k < Len(bytes) /\ bytes[k + 1] = "xA0")
        /\ bytes[k] = "xA0" => (k > 1 /\ bytes[k - 1] = "xC2")

\* The text of well-formed bytes: each 0xC2 0xA0 is U+00A0, the rest ASCII.
Utf8Text(bytes) ==
    LET NotLead(b) == b # "xC2"
        kept == SelectSeq(bytes, NotLead)
    IN [k \in 1..Len(kept) |-> IF kept[k] = "xA0" THEN "nbsp" ELSE kept[k]]

ErrorShown == \E k \in 1..Len(page) : page[k].kind = "error"

\* C6: get_code_from_upload never raises and returns a string: the empty
\* string, with no error drawn, when there is no file; the decoded text,
\* with no error drawn, when the file's bytes are UTF-8; and the empty
\* string, with an error drawn, when the read or the decoding fails.
C6_UploadAlwaysYieldsString ==
    /\ pc # "raised"
    /\ pc \notin {"start", "upload"} =>
          /\ uploaded_file = None => (code_from_file = <<>> /\ ~ErrorShown)
          /\ (uploaded_file # None /\ uploaded_file.readable /\ ValidUtf8(uploaded_file.bytes)) =>
                (code_from_file = Utf8Text(uploaded_file.bytes) /\ ~ErrorShown)
          /\ (uploaded_file # None /\ ~(uploaded_file.readable /\ ValidUtf8(uploaded_file.bytes))) =>
                (code_from_file = <<>> /\ ErrorShown)

\* A file that starts as text and then holds a byte that is not UTF-8 was
\* read: the error is drawn and the text area starts empty.
C6_Witness ==
    /\ pc = "textarea"
    /\ uploaded_file = File(TRUE, <<"pass", "xFF">>)
    /\ code_from_file = <<>>
    /\ ErrorShown

\* C7: an execution issues at most one remote call; a finished execution
\* issued exactly one if the button was clicked on a text that is not blank
\* and none otherwise; and a failed call ends the execution with that one
\* call (no retry).
C7_AtMostOneCallNoRetry ==
    /\ calls <= 1
    /\ pc = "done" => (calls = 1 <=> (clicked /\ ~AllWhitespace(usercode)))
    /\ (response # NoResponse /\ ~response.ok) => (pc = "done" /\ calls = 1)

\* A call failed in one execution and the user triggered the action again:
\* the next execution issued its own single call.
C7_Witness ==
    /\ runs = 2
    /\ calls = 1
    /\ \E k \in 1..Len(log) : log[k].run = 1

\* C8: when chain.invoke returns text, review_code returns exactly that
\* text, main draws that text as the review result, and logging.error wrote
\* nothing in that execution.
C8_SuccessReturnsModelText ==
    response.ok =>
        /\ pc = "done"
        /\ review = response.text
        /\ Shown(El("write", response.text))
        /\ LoggedNow = {}

\* A reply with leading and trailing whitespace was drawn as it came.
C8_Witness ==
    /\ response.ok
    /\ response.text = <<"sp", "Rename f.", "nl">>
    /\ Shown(El("write", <<"sp", "Rename f.", "nl">>))

\* C10: once main is past the preview, the preview and the statistics line
\* of the submitted text are on the page exactly when the text is not
\* empty, clicked or not; and a remote call is only issued after a click,
\* with the preview and statistics of the same text already on the page and
\* that text in the prompt.
C10_PreviewIffNonEmpty ==
    /\ pc \in {"button", "invoke", "done"} => (PreviewShown <=> usercode # <<>>)
    /\ pc \in {"button", "invoke", "done"} =>
          ((\E k \in 1..Len(page) : page[k].kind = "code") <=> usercode # <<>>)
    /\ calls > 0 =>
          /\ clicked
          /\ PreviewShown
          /\ request = prompt_format(usercode)

\* A whitespace-only text is previewed with its statistics although the
\* review step rejects it.
C10_Witness ==
    /\ pc = "done"
    /\ clicked
    /\ usercode # <<>> /\ AllWhitespace(usercode)
    /\ PreviewShown
    /\ calls = 0

====
